---- MODULE Spec2Model ----
(***************************************************************************)
(* The React hooks demo of src/App.js as a state machine: the ThemeProvider *)
(* store, the ThemeToggle consumer, DocumentTitleUpdater (counter, title    *)
(* effect, interval effect, width toggle), DomChangeTracker (layout effect  *)
(* measuring the box) and App (script loading gate), under React's render,  *)
(* commit and effect schedule.  Component state is what the last commit     *)
(* left; setState calls wait in per-hook queues until the next render       *)
(* processes them (batching).  A render, its commit and its layout effects  *)
(* are one step; the passive effects of a commit run in a later step of     *)
(* their own, always before the next render or the unmount.                 *)
(* context/ThemeContext.jsx and components/ThemeToggle.jsx hold the same    *)
(* provider and consumer as App.js (the provider with one more console.log) *)
(* and are covered by the same definitions.                                 *)
(***************************************************************************)
EXTENDS Integers, Sequences, FiniteSets, TLC

\* Bounds on the number of user actions explored.
MaxToggles == 3
MaxIncs == 3
MaxWidthToggles == 2
\* Pixel width of the browser viewport.
ViewportWidth == 1000
\* Number of in-between widths of the wrapper's transition that are explored.
MaxFrames == 2

\* Tailwind's pixel values of the utilities on the box's ancestors.
PagePadding == 32      \* p-8 on the page div
MaxContainer == 768    \* max-w-3xl on the centred column
CardPadding == 24      \* p-6 on DomChangeTracker's card
CardBorder == 1        \* border on DomChangeTracker's card

VARIABLES
  \* --- lifecycle -----------------------------------------------------------
  root,              \* "none" | "mounted" | "unmounted": App in its React root
  view,              \* "none" | "placeholder" | "tree": what App has committed
  phase,             \* "idle": between tasks; "sync": a layout effect's update awaits its synchronous re-render
  \* --- committed hook state --------------------------------------------------
  isTailwindLoaded,  \* App
  theme,             \* ThemeProvider
  count,             \* DocumentTitleUpdater
  customWidth,       \* DocumentTitleUpdater
  width,             \* DomChangeTracker
  \* --- pending setState calls -------------------------------------------------
  qLoaded, qTheme, qCount, qCustomWidth,   \* numbers of queued updaters
  qWidth,                                  \* queued setWidth(v) values
  \* --- committed output --------------------------------------------------------
  ctxTheme,          \* contextValue.theme of the last ThemeProvider render
  toggleSeen,        \* theme ThemeToggle read through useTheme()
  consumerSeen,      \* theme the root ThemeContext.Consumer read
  propTheme,         \* theme prop of DocumentTitleUpdater
  domClass,          \* customWidth class on DocumentTitleUpdater's wrapper div
  shownWidth,        \* width.toFixed(2) as rendered by DomChangeTracker
  buttonRef, boxRef, \* ref.current of ThemeToggle / DomChangeTracker
  \* --- effect bookkeeping --------------------------------------------------
  titleDeps, measureDeps,  \* dependency arrays of the last run-deciding render
  pendingPassive,          \* passive effects committed and not yet run
  intervalId,              \* id captured by the interval effect's cleanup (0: none)
  \* --- host environment -------------------------------------------------------
  title,             \* document.title
  timersLive, nSetInterval, nClearInterval,
  scriptInHead, scriptState,
  boxWidth,          \* offsetWidth of the tracked box right now
  focus,             \* element holding input focus
  \* --- history -----------------------------------------------------------------
  nToggles, nIncs, nWidthToggles,  \* handler invocations so far
  effLog, effSched,  \* effects run for / scheduled by the latest render (none when it bailed out)
  lastRendered,      \* component functions invoked by the latest render
  lastCause,         \* hooks whose queue the latest render processed
  passes, commits    \* DomChangeTracker invocations / committed renders in the current task

vars ==
  <<root, view, phase, isTailwindLoaded, theme, count,
    customWidth, width, qLoaded, qTheme, qCount, qCustomWidth,
    qWidth, ctxTheme, toggleSeen, consumerSeen, propTheme, domClass,
    shownWidth, buttonRef, boxRef, titleDeps, measureDeps, pendingPassive,
    intervalId, title, timersLive, nSetInterval, nClearInterval, scriptInHead,
    scriptState, boxWidth, focus, nToggles, nIncs,
    nWidthToggles, effLog, effSched, lastRendered, lastCause, passes,
    commits>>

Cur ==
  [root |-> root,
   view |-> view,
   phase |-> phase,
   isTailwindLoaded |-> isTailwindLoaded,
   theme |-> theme,
   count |-> count,
   customWidth |-> customWidth,
   width |-> width,
   qLoaded |-> qLoaded,
   qTheme |-> qTheme,
   qCount |-> qCount,
   qCustomWidth |-> qCustomWidth,
   qWidth |-> qWidth,
   ctxTheme |-> ctxTheme,
   toggleSeen |-> toggleSeen,
   consumerSeen |-> consumerSeen,
   propTheme |-> propTheme,
   domClass |-> domClass,
   shownWidth |-> shownWidth,
   buttonRef |-> buttonRef,
   boxRef |-> boxRef,
   titleDeps |-> titleDeps,
   measureDeps |-> measureDeps,
   pendingPassive |-> pendingPassive,
   intervalId |-> intervalId,
   title |-> title,
   timersLive |-> timersLive,
   nSetInterval |-> nSetInterval,
   nClearInterval |-> nClearInterval,
   scriptInHead |-> scriptInHead,
   scriptState |-> scriptState,
   boxWidth |-> boxWidth,
   focus |-> focus,
   nToggles |-> nToggles,
   nIncs |-> nIncs,
   nWidthToggles |-> nWidthToggles,
   effLog |-> effLog,
   effSched |-> effSched,
   lastRendered |-> lastRendered,
   lastCause |-> lastCause,
   passes |-> passes,
   commits |-> commits]

Set(n) ==
  /\ root' = n.root
  /\ view' = n.view
  /\ phase' = n.phase
  /\ isTailwindLoaded' = n.isTailwindLoaded
  /\ theme' = n.theme
  /\ count' = n.count
  /\ customWidth' = n.customWidth
  /\ width' = n.width
  /\ qLoaded' = n.qLoaded
  /\ qTheme' = n.qTheme
  /\ qCount' = n.qCount
  /\ qCustomWidth' = n.qCustomWidth
  /\ qWidth' = n.qWidth
  /\ ctxTheme' = n.ctxTheme
  /\ toggleSeen' = n.toggleSeen
  /\ consumerSeen' = n.consumerSeen
  /\ propTheme' = n.propTheme
  /\ domClass' = n.domClass
  /\ shownWidth' = n.shownWidth
  /\ buttonRef' = n.buttonRef
  /\ boxRef' = n.boxRef
  /\ titleDeps' = n.titleDeps
  /\ measureDeps' = n.measureDeps
  /\ pendingPassive' = n.pendingPassive
  /\ intervalId' = n.intervalId
  /\ title' = n.title
  /\ timersLive' = n.timersLive
  /\ nSetInterval' = n.nSetInterval
  /\ nClearInterval' = n.nClearInterval
  /\ scriptInHead' = n.scriptInHead
  /\ scriptState' = n.scriptState
  /\ boxWidth' = n.boxWidth
  /\ focus' = n.focus
  /\ nToggles' = n.nToggles
  /\ nIncs' = n.nIncs
  /\ nWidthToggles' = n.nWidthToggles
  /\ effLog' = n.effLog
  /\ effSched' = n.effSched
  /\ lastRendered' = n.lastRendered
  /\ lastCause' = n.lastCause
  /\ passes' = n.passes
  /\ commits' = n.commits

----------------------------------------------------------------------------
(* Pure pieces of the components *)

\* A variant that sets the mode instead of flipping it.
MutToggleThemeUpdater(prevTheme) == IF prevTheme = "light" THEN "dark" ELSE "dark"

\* setTheme(prevTheme => (prevTheme === 'light' ? 'dark' : 'light'))
toggleThemeUpdater(prevTheme) == IF prevTheme = "light" THEN "dark" ELSE "light"

\* setCustomWidth(prevWidth => ...)
toggleWidthUpdater(prevWidth) == IF prevWidth = "w-full" THEN "w-1/2" ELSE "w-full"

\* setCount(c => c + 1)
incrementUpdater(c) == c + 1

\* React applies a hook's queued updaters in order when it renders.
RECURSIVE ApplyTheme(_, _)
ApplyTheme(n, v) == IF n = 0 THEN v ELSE ApplyTheme(n - 1, toggleThemeUpdater(v))

RECURSIVE ApplyWidthToggle(_, _)
ApplyWidthToggle(n, v) == IF n = 0 THEN v ELSE ApplyWidthToggle(n - 1, toggleWidthUpdater(v))

RECURSIVE ApplyIncrement(_, _)
ApplyIncrement(n, v) == IF n = 0 THEN v ELSE ApplyIncrement(n - 1, incrementUpdater(v))

\* setWidth(currentWidth): plain values, the last one wins.
ApplySetWidth(q, v) == IF q = <<>> THEN v ELSE q[Len(q)]

\* `Count: ${count} | Theme: ${theme}`
TitleString(c, t) == <<"Count: ", c, " | Theme: ", t>>

\* width.toFixed(2) of a whole number of pixels: the integer part and two zero decimals
ToFixed2(w) == <<w, ".", 0, 0>>

\* A variant without the loading gate.
MutAppView(loaded) == "tree"

\* {!isTailwindLoaded ? <placeholder> : <ThemeContext.Consumer>...}
AppView(loaded) == IF ~loaded THEN "placeholder" ELSE "tree"

\* A content box is never narrower than 0.
AtLeastZero(w) == IF w < 0 THEN 0 ELSE w

\* The column that holds the wrapper: the viewport less the page padding,
\* capped by max-w-3xl.
ContainerWidth ==
  IF ViewportWidth - 2 * PagePadding < MaxContainer
    THEN AtLeastZero(ViewportWidth - 2 * PagePadding) ELSE MaxContainer

\* offsetWidth of the wrapper div of DocumentTitleUpdater: w-full is 100%,
\* w-1/2 is 50%, and a half pixel is rounded up.
WrapperWidth(cls) ==
  IF cls = "w-full" THEN ContainerWidth ELSE (ContainerWidth + 1) \div 2

\* Settled offsetWidth of the tracked box (width: 100% of its card's content
\* box): the wrapper less the card's padding and border on both sides, the
\* half pixel of the wrapper carried along and rounded up, and 0 when the
\* wrapper is narrower than the padding and border.
TargetWidth(cls) == AtLeastZero(WrapperWidth(cls) - 2 * CardPadding - 2 * CardBorder)

\* The wrapper's "transition-all duration-500": the browser eases the width
\* from one end to the other through many frames.  The widths explored are
\* the two ends and MaxFrames evenly spaced widths between them.
FrameWidths ==
  LET lo == TargetWidth("w-1/2")
      hi == TargetWidth("w-full")
  IN {lo + (k * (hi - lo)) \div (MaxFrames + 1) : k \in 0..(MaxFrames + 1)}

\* The widths a later frame can show: any width nearer the end, or the end.
TransitionFrames(from, to) ==
  {w \in FrameWidths : \/ (from < to /\ from < w /\ w <= to)
                       \/ (from > to /\ to <= w /\ w < from)}

\* [boxRef.current?.offsetWidth], evaluated while DomChangeTracker renders
MeasureDepsOf(ref, w) == IF ref = "null" THEN <<>> ELSE <<w>>

\* A variant with the hooks swapped: the title written in useLayoutEffect,
\* the box measured in useEffect.
MutEffectPhase(e) == IF e = "title" THEN "layout" ELSE "passive"

\* Which hook each effect is declared with: useLayoutEffect for the
\* measurement, useEffect for the title, the interval and the script.
EffectPhase(e) == IF e = "measure" THEN "layout" ELSE "passive"

\* React runs the effects of one phase children first, siblings and hooks in order.
EffectOrder == <<"measure", "title", "interval", "script">>

\* A variant whose dependency array leaves the theme out.
MutTitleDepsOf(c, t) == <<c>>

\* The title effect's dependency array, [count, theme].
TitleDepsOf(c, t) == <<c, t>>

\* A variant without the dependency array: the effect runs after every render.
MutIntervalScheduled(mounting) == TRUE

\* The interval effect's []: only the mounting render schedules it.
IntervalScheduled(mounting) == mounting

\* A variant that stores a fresh object on every set, never equal to the old one.
MutStateChanged(old, new) == TRUE

\* useState keeps the old state, and bails out, when Object.is(old, new).
StateChanged(old, new) == old # new

\* A variant in which ThemeToggle reads the context only when it mounts.
MutToggleRenders(providerOut, mounting) == mounting

\* A consumer of ThemeContext re-renders when the provider re-rendered: the
\* contextValue object is built again on every ThemeProvider render.
ToggleRenders(providerOut, mounting) == providerOut

ConsumerRenders(providerOut, mounting) == providerOut

\* <DomChangeTracker /> is a fresh element on every DocumentTitleUpdater
\* render, so the child renders whenever its parent does.
ChildRenders(parentOut) == parentOut
----------------------------------------------------------------------------
(* Effects *)

\* The body of one effect, run on state s (the closure reads the values of
\* the render that scheduled it, which are the committed ones).
RunEffect(s, e) ==
  LET logged == [s EXCEPT !.effLog = Append(@, e)] IN
  CASE e = "title" ->
         \* document.title = `Count: ${count} | Theme: ${theme}`
         [logged EXCEPT !.title = TitleString(s.count, s.propTheme)]
    [] e = "interval" ->
         \* const intervalId = setInterval(..., 5000)
         LET id == s.nSetInterval + 1 IN
         [logged EXCEPT !.intervalId = id,
                        !.timersLive = @ \cup {id},
                        !.nSetInterval = @ + 1]
    [] e = "measure" ->
         \* if (boxRef.current) { setWidth(boxRef.current.offsetWidth) }
         IF s.boxRef # "null"
           THEN [logged EXCEPT !.qWidth = Append(@, s.boxWidth)]
           ELSE logged
    [] e = "script" ->
         \* document.head.appendChild(script): the fetch starts
         [logged EXCEPT !.scriptInHead = TRUE,
                        !.scriptState = IF @ = "none" THEN "loading" ELSE @]

RECURSIVE RunEffects(_, _)
RunEffects(s, es) == IF es = <<>> THEN s ELSE RunEffects(RunEffect(s, Head(es)), Tail(es))

InOrder(set) == SelectSeq(EffectOrder, LAMBDA e : e \in set)

\* flushPassiveEffects: the passive effects still pending from the last commit
\* run, children first.  React does this before it renders or unmounts again.
FlushPassive(s) ==
  [RunEffects(s, InOrder(s.pendingPassive)) EXCEPT !.pendingPassive = {}]

----------------------------------------------------------------------------
(* Render and commit *)

\* One render pass over the tree and its commit: the queued updaters are
\* applied, every component whose state, props or context changed is called,
\* the DOM is updated, refs are attached, and the effects whose dependencies
\* changed are scheduled.  Effects are not run here.
Render(s) ==
  LET loaded2  == s.isTailwindLoaded \/ s.qLoaded > 0
      theme2   == ApplyTheme(s.qTheme, s.theme)
      count2   == ApplyIncrement(s.qCount, s.count)
      cw2      == ApplyWidthToggle(s.qCustomWidth, s.customWidth)
      width2   == ApplySetWidth(s.qWidth, s.width)
      \* App
      appMount == s.view = "none"
      appOut   == appMount \/ StateChanged(s.isTailwindLoaded, loaded2)
      view2    == IF appOut THEN AppView(loaded2) ELSE s.view
      mounting == view2 = "tree" /\ s.view # "tree"
      tree     == view2 = "tree"
      \* ThemeProvider
      provCalled == appOut \/ s.qTheme > 0
      provOut    == appOut \/ StateChanged(s.theme, theme2)
      ctx2       == IF provOut THEN theme2 ELSE s.ctxTheme
      \* ThemeContext.Consumer and ThemeToggle
      consOut    == tree /\ ConsumerRenders(provOut, mounting)
      togOut     == tree /\ ToggleRenders(provOut, mounting)
      consSeen2  == IF consOut THEN ctx2 ELSE s.consumerSeen
      togSeen2   == IF togOut THEN ctx2 ELSE s.toggleSeen
      \* DocumentTitleUpdater
      prop2      == IF consOut THEN consSeen2 ELSE s.propTheme
      dtuCalled  == tree /\ (consOut \/ s.qCount > 0 \/ s.qCustomWidth > 0)
      dtuOut     == tree /\ (consOut \/ StateChanged(s.count, count2)
                                     \/ StateChanged(s.customWidth, cw2))
      tDeps2     == TitleDepsOf(count2, prop2)
      titleSched == dtuOut /\ (mounting \/ tDeps2 # s.titleDeps)
      intvSched  == dtuOut /\ IntervalScheduled(mounting)
      \* DomChangeTracker
      dctCalled  == tree /\ (ChildRenders(dtuOut) \/ s.qWidth # <<>>)
      dctOut     == tree /\ (ChildRenders(dtuOut) \/ StateChanged(s.width, width2))
      mDeps2     == MeasureDepsOf(s.boxRef, s.boxWidth)
      measSched  == dctOut /\ (mounting \/ mDeps2 # s.measureDeps)
      sched      == (IF appMount THEN {"script"} ELSE {})
                    \cup (IF titleSched THEN {"title"} ELSE {})
                    \cup (IF intvSched THEN {"interval"} ELSE {})
                    \cup (IF measSched THEN {"measure"} ELSE {})
      first      == s.phase = "idle"
  IN [s EXCEPT
        !.isTailwindLoaded = loaded2,
        !.theme = theme2,
        !.count = count2,
        !.customWidth = cw2,
        !.width = width2,
        !.qLoaded = 0, !.qTheme = 0, !.qCount = 0, !.qCustomWidth = 0,
        !.qWidth = <<>>,
        !.view = view2,
        !.ctxTheme = ctx2,
        !.consumerSeen = consSeen2,
        !.toggleSeen = togSeen2,
        !.propTheme = prop2,
        !.domClass = IF dtuOut THEN cw2 ELSE @,
        !.shownWidth = IF dctOut THEN ToFixed2(width2) ELSE @,
        !.buttonRef = IF mounting THEN "button" ELSE @,
        !.boxRef = IF mounting THEN "div" ELSE @,
        !.boxWidth = IF mounting THEN TargetWidth(cw2) ELSE @,
        !.titleDeps = IF dtuOut THEN tDeps2 ELSE @,
        !.measureDeps = IF dctOut THEN mDeps2 ELSE @,
        !.pendingPassive = @ \cup {e \in sched : EffectPhase(e) = "passive"},
        !.effSched = sched,
        !.effLog = <<>>,
        !.lastRendered =
            (IF appOut \/ s.qLoaded > 0 THEN {"App"} ELSE {})
            \cup (IF provCalled THEN {"ThemeProvider"} ELSE {})
            \cup (IF consOut THEN {"ThemeContext.Consumer"} ELSE {})
            \cup (IF togOut THEN {"ThemeToggle"} ELSE {})
            \cup (IF dtuCalled THEN {"DocumentTitleUpdater"} ELSE {})
            \cup (IF dctCalled THEN {"DomChangeTracker"} ELSE {}),
        !.lastCause =
            (IF s.qLoaded > 0 THEN {"isTailwindLoaded"} ELSE {})
            \cup (IF s.qTheme > 0 THEN {"theme"} ELSE {})
            \cup (IF s.qCount > 0 THEN {"count"} ELSE {})
            \cup (IF s.qCustomWidth > 0 THEN {"customWidth"} ELSE {})
            \cup (IF s.qWidth # <<>> THEN {"width"} ELSE {}),
        !.passes = (IF first THEN 0 ELSE @) + (IF dctCalled THEN 1 ELSE 0),
        !.commits = (IF first THEN 0 ELSE @) + (IF dctOut THEN 1 ELSE 0)]

\* The layout effects of the commit run before React returns; an update they
\* queue is rendered synchronously, before the browser paints.
RunLayout(s) ==
  LET r == RunEffects(s, InOrder({e \in s.effSched : EffectPhase(e) = "layout"}))
  IN [r EXCEPT !.phase = IF r.qWidth # <<>> THEN "sync" ELSE "idle"]

\* performSyncWorkOnRoot: render, commit, run the layout effects.
Work(s) == RunLayout(Render(s))

HasUpdates(s) ==
  s.qLoaded > 0 \/ s.qTheme > 0 \/ s.qCount > 0 \/ s.qCustomWidth > 0 \/ s.qWidth # <<>>
----------------------------------------------------------------------------
(* Handlers *)

\* ThemeProvider.toggleTheme
toggleTheme(s) == [s EXCEPT !.qTheme = @ + 1, !.nToggles = @ + 1]

\* A variant with the focus button wired to the toggle.
MutHandleFocus(s) == [s EXCEPT !.qTheme = @ + 1]

\* ThemeToggle.handleFocus: if (buttonRef.current) buttonRef.current.focus()
handleFocus(s) == IF s.buttonRef # "null" THEN [s EXCEPT !.focus = s.buttonRef] ELSE s

\* onClick={() => setCount(c => c + 1)}
incrementCount(s) == [s EXCEPT !.qCount = @ + 1, !.nIncs = @ + 1]

\* DocumentTitleUpdater.toggleWidth
toggleWidth(s) == [s EXCEPT !.qCustomWidth = @ + 1, !.nWidthToggles = @ + 1]

\* script.onload: setIsTailwindLoaded(true); React drops a setState on an
\* unmounted component.
onload(s) ==
  [s EXCEPT !.scriptState = "loaded",
            !.qLoaded = IF s.root = "mounted" THEN @ + 1 ELSE @]

\* Unmounting the root: refs are detached and the cleanups of the [] effects
\* run: clearInterval(intervalId) and document.head.removeChild(script).
unmount(s) ==
  LET held == s.intervalId # 0
  IN [s EXCEPT !.root = "unmounted", !.view = "none", !.phase = "idle",
               !.timersLive = IF held THEN @ \ {s.intervalId} ELSE @,
               !.nClearInterval = IF held THEN @ + 1 ELSE @,
               !.intervalId = 0,
               !.scriptInHead = FALSE,
               !.buttonRef = "null", !.boxRef = "null", !.boxWidth = 0,
               !.focus = IF @ = s.buttonRef THEN "body" ELSE @,
               !.qLoaded = 0, !.qTheme = 0, !.qCount = 0, !.qCustomWidth = 0,
               !.qWidth = <<>>]

----------------------------------------------------------------------------
(* The state machine *)

Init ==
  /\ root = "none" /\ view = "none" /\ phase = "idle"
  /\ isTailwindLoaded = FALSE      \* useState(false)
  /\ theme = "light"               \* useState('light')
  /\ count = 0                     \* useState(0)
  /\ customWidth = "w-full"        \* useState('w-full')
  /\ width = 0                     \* useState(0)
  /\ qLoaded = 0 /\ qTheme = 0 /\ qCount = 0 /\ qCustomWidth = 0 /\ qWidth = <<>>
  /\ ctxTheme = "none" /\ toggleSeen = "none" /\ consumerSeen = "none"
  /\ propTheme = "none" /\ domClass = "none" /\ shownWidth = <<>>
  /\ buttonRef = "null" /\ boxRef = "null"     \* useRef(null)
  /\ titleDeps = <<>> /\ measureDeps = <<>> /\ pendingPassive = {}
  /\ intervalId = 0
  /\ title = <<>>
  /\ timersLive = {} /\ nSetInterval = 0 /\ nClearInterval = 0
  /\ scriptInHead = FALSE /\ scriptState = "none"
  /\ boxWidth = 0 /\ focus = "body"
  /\ nToggles = 0 /\ nIncs = 0 /\ nWidthToggles = 0
  /\ effLog = <<>> /\ effSched = {} /\ lastRendered = {} /\ lastCause = {}
  /\ passes = 0 /\ commits = 0

\* The user can reach a button once the tree is on screen and no task runs.
Interactive == root = "mounted" /\ view = "tree" /\ phase = "idle"

\* root.render(<App />)
MountApp == root = "none" /\ Set([Work(Cur) EXCEPT !.root = "mounted"])

\* The script finishes loading (it may never).
ScriptOnload == scriptState = "loading" /\ phase = "idle" /\ Set(onload(Cur))

ToggleTheme == Interactive /\ nToggles < MaxToggles /\ Set(toggleTheme(Cur))

HandleFocus == Interactive /\ Set(handleFocus(Cur))

IncrementCount == Interactive /\ nIncs < MaxIncs /\ Set(incrementCount(Cur))

ToggleWidth == Interactive /\ nWidthToggles < MaxWidthToggles /\ Set(toggleWidth(Cur))

\* React's scheduled work: render the queued updates (after the passive
\* effects of the previous commit).
CanPerformWork == root = "mounted" /\ HasUpdates(Cur) /\ pendingPassive = {}

PerformWork == CanPerformWork /\ Set(Work(Cur))

\* dispatchSetState may drop an update equal to the current state without
\* scheduling anything (its eager bail-out); otherwise PerformWork renders
\* the component once more and bails out there.
EagerBailout ==
  /\ root = "mounted" /\ qWidth # <<>>
  /\ \A i \in 1..Len(qWidth) : ~StateChanged(width, qWidth[i])
  /\ Set([Cur EXCEPT !.qWidth = <<>>, !.phase = "idle"])

\* React's scheduler runs the passive effects of the last commit.
CanFlushPassiveEffects == root = "mounted" /\ pendingPassive # {}

FlushPassiveEffects == CanFlushPassiveEffects /\ Set(FlushPassive(Cur))

\* The browser advances the wrapper's width transition by a frame.
TransitionStep ==
  /\ Interactive /\ boxRef # "null" /\ boxWidth # TargetWidth(domClass)
  /\ \E w \in TransitionFrames(boxWidth, TargetWidth(domClass)) :
       Set([Cur EXCEPT !.boxWidth = w])

\* The interval callback: console.log("Interval running..."), which touches
\* no state.
IntervalTick ==
  /\ timersLive # {} /\ phase = "idle"
  /\ UNCHANGED vars

\* root.unmount()
Unmount ==
  /\ root = "mounted" /\ phase = "idle" /\ pendingPassive = {}
  /\ Set(unmount(Cur))

Next ==
  \/ MountApp
  \/ ScriptOnload
  \/ ToggleTheme
  \/ HandleFocus
  \/ IncrementCount
  \/ ToggleWidth
  \/ PerformWork
  \/ EagerBailout
  \/ FlushPassiveEffects
  \/ TransitionStep
  \/ IntervalTick
  \/ Unmount

Spec == Init /\ [][Next]_vars

----------------------------------------------------------------------------
(* Properties *)

Range(f) == {f[i] : i \in DOMAIN f}

\* Position of the first occurrence of e in log (0: none).
FirstAt(log, e) ==
  IF e \in Range(log) THEN CHOOSE i \in DOMAIN log : log[i] = e /\ \A j \in 1..(i - 1) : log[j] # e
  ELSE 0

Parity(n) == IF n % 2 = 0 THEN "light" ELSE "dark"

\* Every update is rendered and every effect has run.
Settled ==
  /\ root = "mounted" /\ view = "tree" /\ phase = "idle"
  /\ ~HasUpdates(Cur) /\ pendingPassive = {}

\* C1: the mode is always light or dark; with the queued toggles applied it is
\* light after an even number of toggleTheme calls and dark after an odd
\* number, so once the queue is rendered the committed mode has that parity,
\* however the calls were batched.
C1_ToggleParity ==
  /\ theme \in {"light", "dark"}
  /\ root = "mounted" => ApplyTheme(qTheme, theme) = Parity(nToggles)
  /\ (root = "mounted" /\ qTheme = 0) => theme = Parity(nToggles)

\* One toggle rendered (dark on screen), two more queued in the same tick.
C1_Witness ==
  /\ root = "mounted" /\ nToggles = 3 /\ qTheme = 2
  /\ theme = "dark" /\ toggleSeen = "dark"

\* C2: setInterval runs once, when DocumentTitleUpdater mounts, and
\* clearInterval once, when it unmounts; no render in between acquires or
\* releases a timer, and at most one timer is live.
C2_TimerPairing ==
  /\ nSetInterval <= 1 /\ nClearInterval <= nSetInterval
  /\ Cardinality(timersLive) = nSetInterval - nClearInterval
  /\ (view = "tree" /\ "interval" \notin pendingPassive)
        => (nSetInterval = 1 /\ nClearInterval = 0)
  /\ (view # "tree" /\ root # "unmounted") => nSetInterval = 0
  /\ root = "unmounted" => nClearInterval = nSetInterval

C2_Witness ==
  /\ root = "unmounted" /\ nSetInterval = 1 /\ nClearInterval = 1
  /\ timersLive = {}
  /\ nIncs >= 2 /\ nWidthToggles >= 1 /\ nToggles >= 1

\* C3: once settled, count is the number of increments and document.title is
\* "Count: {K} | Theme: {mode}"; the title effect is pending exactly after a
\* commit that changed count or the theme prop, and once it has run the title
\* matches the committed count and theme.
C3_TitleSync ==
  /\ Settled => (count = nIncs /\ title = TitleString(nIncs, theme))
  /\ view = "tree" =>
       (("title" \in pendingPassive) <=> (title # TitleString(count, propTheme)))

C3_Witness ==
  /\ Settled /\ nIncs >= 2 /\ nToggles >= 1 /\ theme = "dark"
  /\ title = TitleString(nIncs, "dark")

\* C4: whenever the browser can paint, the width DomChangeTracker holds and
\* shows is the width of the box for the committed width mode.
C4_MeasuredWidthFresh ==
  (root = "mounted" /\ view = "tree" /\ phase = "idle")
    => /\ width = TargetWidth(domClass)
       /\ shownWidth = ToFixed2(TargetWidth(domClass))

\* C5: in every commit that schedules both the measuring layout effect and the
\* title effect, the measurement has run by the end of the commit, while the
\* title effect may still be pending, and the title effect runs after it.
C5_LayoutBeforePassive ==
  ({"measure", "title"} \subseteq effSched)
    => /\ "measure" \in Range(effLog)
       /\ "title" \in Range(effLog) => FirstAt(effLog, "measure") < FirstAt(effLog, "title")

C5_Witness ==
  /\ {"measure", "title"} \subseteq effSched
  /\ "count" \in lastCause
  /\ FirstAt(effLog, "measure") = 1 /\ FirstAt(effLog, "title") = 2

\* C6: until the script's onload has been rendered App shows the placeholder
\* only: no part of the tree is mounted, no ref is attached, no timer is set
\* and the title is untouched; without onload that never changes; once
\* onload has fired the render that mounts the tree is owed and can be taken,
\* and once isTailwindLoaded is committed the tree is mounted.
C6_Gate ==
  /\ (root = "mounted" /\ ~isTailwindLoaded) =>
        /\ view = "placeholder"
        /\ buttonRef = "null" /\ boxRef = "null"
        /\ toggleSeen = "none" /\ consumerSeen = "none" /\ propTheme = "none"
        /\ nSetInterval = 0 /\ timersLive = {} /\ title = <<>>
        /\ pendingPassive \subseteq {"script"}
        /\ lastRendered \subseteq {"App", "ThemeProvider"}
  /\ scriptState # "loaded" => ~isTailwindLoaded
  /\ (root = "mounted" /\ scriptState = "loaded" /\ ~isTailwindLoaded) =>
        (qLoaded > 0 /\ (CanPerformWork \/ CanFlushPassiveEffects))
  /\ (root = "mounted" /\ isTailwindLoaded) => view = "tree"

C6_Witness ==
  /\ root = "mounted" /\ scriptState = "loading" /\ scriptInHead
  /\ view = "placeholder" /\ ~isTailwindLoaded

\* C7: a render caused by a theme toggle alone does not call DomChangeTracker
\* and schedules none of its effects.
C7_NonConsumerUntouched ==
  lastCause = {"theme"} =>
    ("DomChangeTracker" \notin lastRendered /\ "measure" \notin effSched)

\* C8: handleFocus changes nothing but the input focus: no state, no queue, no
\* render, no effect, no title; and with a null handle it changes nothing at all.
C8_FocusFrame ==
  /\ [](buttonRef = "null" => handleFocus(Cur) = Cur)
  /\ [][HandleFocus => (Cur' = [Cur EXCEPT !.focus = "button"])]_vars

C8_Witness == root = "mounted" /\ focus = "button" /\ nToggles >= 1

\* C9: in every committed tree the theme read by ThemeToggle, the theme read
\* by the root consumer, the theme prop of DocumentTitleUpdater and the
\* provided context value all equal ThemeProvider's state.
C9_NoTornReads ==
  view = "tree" =>
    /\ ctxTheme = theme
    /\ toggleSeen = theme /\ consumerSeen = theme /\ propTheme = theme

C9_Witness ==
  /\ view = "tree" /\ nToggles >= 1 /\ theme = "dark"
  /\ toggleSeen = "dark" /\ consumerSeen = "dark" /\ propTheme = "dark"

\* C10: within one task (a render and the synchronous re-renders its layout
\* effect asks for) DomChangeTracker is called at most three times and
\* commits at most twice (a setWidth of the current width commits nothing);
\* while a re-render is owed React can always take its next step, so the
\* task ends; and with a null boxRef the layout effect queues no update.
C10_Quiesces ==
  /\ passes <= 3 /\ commits <= 2
  /\ phase = "sync" =>
       /\ root = "mounted" /\ qWidth # <<>>
       /\ (CanPerformWork \/ CanFlushPassiveEffects)
  /\ boxRef = "null" => RunEffect(Cur, "measure").qWidth = qWidth

C10_Witness ==
  /\ phase = "idle" /\ view = "tree" /\ passes = 2 /\ commits = 2
  /\ "width" \in lastCause /\ nWidthToggles >= 1 /\ width = TargetWidth("w-1/2")

====
